---- MODULE Spec2Model ----
(***************************************************************************)
(* Cetus liquidity rebalance bot.                                          *)
(*                                                                         *)
(* Spec     : one check cycle after another of the rebalance orchestrator  *)
(*            (SimpleRebalanceService, services/rebalance-simple.ts, and   *)
(*            RebalanceService, services/rebalance.ts) against a ledger    *)
(*            whose price tick and coin objects change under it.           *)
(* BotSpec  : the scheduler CetusRebalanceBot (start / stop / setInterval  *)
(*            ticks / performCheck) with the cycle reduced to its outcome. *)
(***************************************************************************)
EXTENDS Integers, Sequences, FiniteSets, TLC

\* ---------------------------------------------------------------- bounds
MaxTick == 1          \* pool ticks range over -MaxTick .. MaxTick
MaxCoins == 2         \* coin objects per coin type on the ledger
MaxLiquidity == 1     \* liquidity of the tracked position
MaxInFlight == 2      \* performCheck invocations of timer ticks in flight at once
MaxTimers == 2        \* live timers plus start() calls in flight
MaxMonitorTick == 6   \* ticks handed to the range calculator: -MaxMonitorTick .. MaxMonitorTick
MaxSpacing == 3       \* tick spacings handed to the range calculator: 1 .. MaxSpacing
MaxWidth == 4         \* configured range widths: 1 .. MaxWidth
MaxBound == 3         \* position bounds handed to the monitor: tens in -10 * MaxBound .. 10 * MaxBound
MaxPositions == 2     \* positions getPositions returns for the wallet
MaxRecords == 3       \* coin objects getCoins returns to mergeCoins
MaxBalance == 3       \* balance of one coin object
MaxBalanceUnits == 5  \* wallet balances handed to addLiquidity: halves of the minimum amount

\* ------------------------------------------------------ program constants
MaxAttemptsThree == 2 + 1   \* a third attempt: attempt <= 2 for attempt < 2
MaxAttempts == 2      \* for (let attempt = 0; attempt < 2; attempt++)
ThresholdNum == 5     \* rebalanceThreshold default 0.05 = 5 / 100
ThresholdDen == 100
MinAmount == 1000     \* Math.max(1000, ...)
BalanceShare == 10    \* BigInt(balance.totalBalance) / 10n

Ticks == (0 - MaxTick) .. MaxTick
TickSpacings == {1, 2}
RangeWidths == {0, 3}        \* 0: config.rangeWidth not set
CoinTypes == {"A", "B"}
Services == {"simple", "full"}

VARIABLES
  \* configuration, fixed at construction
  service,        \* which orchestrator the bot drives
  dryRun,         \* RebalanceService.dryRun (DRY_RUN === 'true')
  tickSpacing,    \* pool.tickSpacing
  rangeWidth,     \* config.rangeWidth, 0 when not set
  cfgTicks,       \* config.lowerTick / config.upperTick, each set or not
  \* ledger
  tick,           \* pool current tick index
  pos,            \* the wallet's position: [exists, lower, upper, liq]
  coins,          \* coin objects per coin type
  \* one check cycle (locals of checkAndRebalance and its callees)
  pc,
  poolInfo,       \* snapshot returned by getPoolInfo
  position,       \* snapshot returned by getPositions
  target,         \* {lower, upper} from calculateOptimalRange
  attempt,        \* loop counter of the running retry loop
  coin,           \* coinType argument of the running mergeCoins
  lastError,      \* lastError of the running retry loop
  result,         \* what checkAndRebalance produced
  \* history of the cycle
  submitted,      \* transactions handed to signAndExecuteTransaction, per kind
  committed,      \* transactions the ledger executed with success, per kind
  mergeCalls,     \* mergeCoins invocations per add-liquidity attempt
  lastTx,         \* kind and outcome of the last transaction submitted
  flags,          \* facts of the cycle: removeOk, addOk, consolidationFailed
  \* scheduler (BotSpec)
  isRunning,
  intervalId,     \* 0: undefined, 1: the timer the last setInterval returned
  timers,         \* live setInterval timers
  starts,         \* start() calls in flight, by the await they are at
  inFlight,       \* performCheck invocations of timer ticks in flight
  botlog,         \* history of the scheduler: the last event
  \* a call of PositionMonitorService (MonitorSpec)
  monitorCall,    \* the method called and its arguments
  monitorReturn,  \* what it returned
  \* position discovery of RebalanceService
  wallet,         \* pool of each position getPositions returns, in its order
  subject,        \* index in wallet of the position chosen, 0: none
  \* the merge transaction of mergeCoins (MergeSpec)
  allCoins,       \* balances of the coin objects getCoins returned, in its order
  mergeTx,        \* transactions built: primary coin and coins to merge
  \* the amounts of RebalanceService.addLiquidity (AmountSpec)
  addCall,        \* configured amounts and wallet balances of the two tokens
  addAmounts,     \* the amounts chosen, or the rejection
  \* what a scheduler's log shows of the cycle before the current one
  prev

cfgVars == <<service, dryRun, tickSpacing, rangeWidth, cfgTicks>>
ledgerVars == <<tick, pos, coins>>
cycleVars == <<pc, poolInfo, position, target, attempt, coin, lastError, result>>
histVars == <<submitted, committed, mergeCalls, lastTx, flags>>
botVars == <<isRunning, intervalId, timers, starts, inFlight, botlog>>
monVars == <<monitorCall, monitorReturn>>
discoveryVars == <<wallet, subject>>
mergeVars == <<allCoins, mergeTx>>
amountVars == <<addCall, addAmounts>>
vars == <<cfgVars, ledgerVars, cycleVars, histVars, botVars, monVars, discoveryVars,
         mergeVars, amountVars, prev>>

\* ------------------------------------------------------------ values
\* an error is <<class, attempt that met it>>: "status" (the ledger reported a
\* status other than success), "raise" (the awaited call raised),
\* "consolidationFailed" (coins still fragmented after the second verification)
NoError == <<"none", 0>>
NoRange == [set |-> FALSE, lower |-> 0, upper |-> 0]
Range(l, u) == [set |-> TRUE, lower |-> l, upper |-> u]
NoResult == [kind |-> "none", success |-> FALSE, digest |-> "none",
             error |-> NoError, oldPosition |-> NoRange, newPosition |-> NoRange]
NoPosition == [exists |-> FALSE, lower |-> 0, upper |-> 0, liq |-> 0, inRange |-> FALSE]
TxKinds == {"remove", "add", "merge"}
NoFlags == [removeOk |-> FALSE, addOk |-> FALSE, consolidationFailed |-> FALSE]
NoTx == [kind |-> "none", outcome |-> "none"]

Abs(x) == IF x < 0 THEN 0 - x ELSE x
Floor(a, b) == a \div b                    \* b > 0: rounds toward minus infinity
Ceil(a, b) == 0 - ((0 - a) \div b)

\* ---------------------------------- variants of the monitor's methods
\* integer division that truncates toward zero, as (a / b) | 0 does
Trunc(a, b) == IF a >= 0 THEN a \div b ELSE 0 - ((0 - a) \div b)
\* the tightest range anchored by truncation instead of floor
calculateOptimalRangeTruncating(t, s, w) ==
  IF w = 0
  THEN [lower |-> Trunc(t, s) * s, upper |-> Trunc(t, s) * s + s]
  ELSE [lower |-> Floor(2 * t - w, 2 * s) * s, upper |-> Ceil(2 * t + w, 2 * s) * s]
\* the tightest range anchored at the aligned tick at or above the current tick
calculateOptimalRangeCeiling(t, s, w) ==
  IF w = 0
  THEN [lower |-> Ceil(t, s) * s - s, upper |-> Ceil(t, s) * s]
  ELSE [lower |-> Floor(2 * t - w, 2 * s) * s, upper |-> Ceil(2 * t + w, 2 * s) * s]
\* the centred range with half = Math.floor(W / 2)
calculateOptimalRangeFlooredHalf(t, s, w) ==
  IF w = 0
  THEN [lower |-> Floor(t, s) * s, upper |-> Floor(t, s) * s + s]
  ELSE [lower |-> Floor(t - Floor(w, 2), s) * s, upper |-> Ceil(t + Floor(w, 2), s) * s]
\* the centred range padded by one more spacing on each side
calculateOptimalRangePadded(t, s, w) ==
  IF w = 0
  THEN [lower |-> Floor(t, s) * s, upper |-> Floor(t, s) * s + s]
  ELSE [lower |-> Floor(2 * t - w, 2 * s) * s - s, upper |-> Ceil(2 * t + w, 2 * s) * s + s]
\* the in-range test with the upper bound excluded
isPositionInRangeHalfOpen(lower, upper, t) == lower <= t /\ t < upper
\* the margin test dropped: only the stored flag decides
shouldRebalanceFlagOnly(p, t) == ~p.inRange
\* the margin comparisons written <= for <
shouldRebalanceInclusive(p, t) ==
  \/ ~p.inRange
  \/ (t - p.lower) * 100 <= 5 * (p.upper - p.lower)
  \/ (p.upper - t) * 100 <= 5 * (p.upper - p.lower)

\* ------------------------------------------- PositionMonitorService
\* calculateOptimalRange(currentTick, tickSpacing), reading config.rangeWidth
\* (w = 0: not configured). Tightest range by default, centred and rounded
\* outward to the grid when a width is configured; w / 2 is an exact
\* quotient, so the bounds are taken over 2 * tickSpacing.
calculateOptimalRange(t, s, w) ==
  IF w = 0
  THEN [lower |-> Floor(t, s) * s, upper |-> Floor(t, s) * s + s]
  ELSE [lower |-> Floor(2 * t - w, 2 * s) * s, upper |-> Ceil(2 * t + w, 2 * s) * s]

isPositionInRange(lower, upper, t) == lower <= t /\ t <= upper

\* margin = rebalanceThreshold * (upper - lower), kept exact by scaling
shouldRebalance(p, t) ==
  \/ ~p.inRange
  \/ (t - p.lower) * ThresholdDen < ThresholdNum * (p.upper - p.lower)
  \/ (p.upper - t) * ThresholdDen < ThresholdNum * (p.upper - p.lower)

\* getPositions(owner): the wallet's position as the ledger holds it, with
\* the in-range flag derived from the pool tick at the time of the read
PositionSnapshot ==
  IF pos.exists
  THEN [exists |-> TRUE, lower |-> pos.lower, upper |-> pos.upper, liq |-> pos.liq,
        inRange |-> isPositionInRange(pos.lower, pos.upper, tick)]
  ELSE NoPosition

\* ------------------------------------------------------------ ledger
\* signAndExecuteTransaction returns effects with status success or failure,
\* or raises; a raised error says nothing about whether the ledger executed
\* the transaction (the response can be lost after execution).
TxOutcomes == {"success", "failure", "raise", "raiseCommitted"}
Executed(o) == o \in {"success", "raiseCommitted"}

\* the ledger executes a remove only of liquidity the position holds
RemoveOutcomes(delta) ==
  IF pos.exists /\ pos.liq >= delta THEN TxOutcomes ELSE {"failure", "raise"}

Min(a, b) == IF a < b THEN a ELSE b

\* The market moves the pool price. A cycle reads the price in its pool read
\* (and the position read derives the in-range flag from it), so in Spec the
\* move is taken where a cycle is about to read the pool: moves at any other
\* time between two cycles lead to the same reads.
PriceMoves ==
  /\ pc \in {"getPoolInfo", "fullGetPoolInfo"}
  /\ \E t \in {tick - 1, tick + 1} \cap Ticks : tick' = t
  /\ UNCHANGED <<monVars, mergeVars, amountVars, prev, discoveryVars, cfgVars, pos, coins, cycleVars, histVars, botVars>>

\* Within a cycle the price also moves while rebalancePosition works
\* (removal, merges, delays, retries): that move is taken where the
\* open-position transaction is about to be submitted.
PriceMovesDuringAdd ==
  /\ pc = "addLiquidityExecute"
  /\ \E t \in {tick - 1, tick + 1} \cap Ticks : tick' = t
  /\ UNCHANGED <<monVars, mergeVars, amountVars, prev, discoveryVars, cfgVars, pos, coins, cycleVars, histVars, botVars>>

\* A transfer to or from the wallet changes the coin objects of one type.
\* Only mergeCoins reads them (getCoins), so the change is taken where one
\* of its reads is about to happen.
CoinsChange ==
  /\ pc \in {"mergeCoins", "mergeCoinsVerify", "mergeCoinsSecondVerify"}
  /\ \E c \in CoinTypes, n \in 0 .. MaxCoins :
        /\ n # coins[c]
        /\ coins' = [coins EXCEPT ![c] = n]
  /\ UNCHANGED <<monVars, mergeVars, amountVars, prev, discoveryVars, cfgVars, tick, pos, cycleVars, histVars, botVars>>

\* ------------------------------------------------ results of a cycle
hasLiquidityAlways(p) == p.liq >= 0    \* the comparison written >= for >
hasLiquidity(p) == p.liq > 0            \* liquidity && BigInt(liquidity) > 0n

Null == [NoResult EXCEPT !.kind = "null"]
Thrown(e) == [NoResult EXCEPT !.kind = "thrown", !.error = e]
Failure(e) == [NoResult EXCEPT !.kind = "result", !.error = e]
Success(digest, old, new) ==
  [kind |-> "result", success |-> TRUE, digest |-> digest, error |-> NoError,
   oldPosition |-> old, newPosition |-> new]

\* =================================================== SimpleRebalanceService
NoHistory ==
  /\ submitted' = [k \in TxKinds |-> 0]
  /\ committed' = [k \in TxKinds |-> 0]
  /\ mergeCalls' = [a \in 0 .. MaxAttempts - 1 |-> 0]
  /\ lastTx' = NoTx
  /\ flags' = NoFlags

NoLocals ==
  /\ poolInfo' = [tick |-> 0, tickSpacing |-> tickSpacing]
  /\ position' = NoPosition
  /\ target' = [lower |-> 0, upper |-> 0]
  /\ attempt' = 0
  /\ coin' = "A"
  /\ lastError' = NoError
  /\ result' = NoResult
  /\ subject' = 0

\* the cycle that has just ended, as the next cycle finds it: whether it
\* rebalanced successfully and at which pool tick, and whether the ledger
\* executed its removal but no open-position transaction. Kept where Init
\* switches it on (prev.on), for the claims about consecutive cycles.
NoPrev == [on |-> FALSE, success |-> FALSE, tick |-> 0, removedOnly |-> FALSE]
Remember ==
  prev' = IF prev.on
          THEN [on |-> TRUE, success |-> result.success,
                tick |-> IF result.success THEN poolInfo.tick ELSE 0,
                removedOnly |-> committed["remove"] > 0 /\ committed["add"] = 0]
          ELSE prev

\* a transaction handed to signAndExecuteTransaction with outcome o
Submit(kind, o) ==
  /\ submitted' = [submitted EXCEPT ![kind] = @ + 1]
  /\ committed' = [committed EXCEPT ![kind] = IF Executed(o) THEN @ + 1 ELSE @]
  /\ lastTx' = [kind |-> kind, outcome |-> o]

\* the catch block of a retry loop: remember the error, go round again while
\* attempts are left, otherwise throw lastError, which rebalancePosition's
\* catch turns into {success: false, error}
AttemptFailed(err, again) ==
  /\ lastError' = <<err, attempt>>
  /\ IF attempt + 1 < MaxAttempts
     THEN /\ attempt' = attempt + 1
          /\ pc' = again
          /\ result' = result
     ELSE /\ attempt' = attempt
          /\ pc' = "done"
          /\ result' = Failure(<<err, attempt>>)

\* checkAndRebalance(poolAddress) is called: a new cycle begins
checkAndRebalance ==
  /\ service = "simple"
  /\ pc \in {"idle", "done"}
  /\ pc' = "getPoolInfo"
  /\ NoLocals
  /\ NoHistory
  /\ Remember
  /\ UNCHANGED <<monVars, mergeVars, amountVars, wallet, cfgVars, ledgerVars, botVars>>

\* getPoolInfo with the rethrow of checkAndRebalance's catch lost: the error
\* of the read is returned as a failure result
getPoolInfoSwallows ==
  /\ service = "simple"
  /\ pc = "getPoolInfo"
  /\ \/ /\ poolInfo' = [tick |-> tick, tickSpacing |-> tickSpacing]
        /\ pc' = "getPositions"
        /\ result' = result
     \/ /\ pc' = "done"
        /\ result' = Failure(<<"raise", 0>>)
        /\ poolInfo' = poolInfo
  /\ UNCHANGED <<monVars, mergeVars, amountVars, prev, discoveryVars, cfgVars, ledgerVars, position, target, attempt, coin, lastError,
                 histVars, botVars>>

\* const poolInfo = await this.monitorService.getPoolInfo(poolAddress)
getPoolInfo ==
  /\ service = "simple"
  /\ pc = "getPoolInfo"
  /\ \/ /\ poolInfo' = [tick |-> tick, tickSpacing |-> tickSpacing]
        /\ pc' = "getPositions"
        /\ result' = result
     \/ /\ pc' = "done"                       \* the read raises: rethrown
        /\ result' = Thrown(<<"raise", 0>>)
        /\ poolInfo' = poolInfo
  /\ UNCHANGED <<monVars, mergeVars, amountVars, prev, discoveryVars, cfgVars, ledgerVars, position, target, attempt, coin, lastError,
                 histVars, botVars>>

\* the entry of addLiquidity: attempt 0 of its retry loop, mergeCoins(coinTypeA)
EnterAddLiquidity ==
  /\ pc' = "mergeCoins"
  /\ attempt' = 0
  /\ coin' = "A"
  /\ lastError' = NoError

\* rebalancePosition up to its first await: the new range, then removal when
\* the position holds liquidity, else straight to addLiquidity
rebalancePosition(p) ==
  /\ target' = calculateOptimalRange(poolInfo.tick, poolInfo.tickSpacing, rangeWidth)
  /\ result' = result
  /\ IF hasLiquidity(p)
     THEN /\ pc' = "removeLiquidity"
          /\ UNCHANGED <<attempt, coin, lastError>>
     ELSE EnterAddLiquidity

\* getPositions without the early return for a position that is not found
getPositionsNotFoundRebalances ==
  /\ service = "simple"
  /\ pc = "getPositions"
  /\ \/ /\ position' = PositionSnapshot
        /\ IF ~position'.exists
           THEN rebalancePosition(position')
           ELSE IF /\ isPositionInRange(position'.lower, position'.upper, poolInfo.tick)
                   /\ ~shouldRebalance(position', poolInfo.tick)
           THEN /\ pc' = "done"               \* no rebalance needed
                /\ result' = Null
                /\ UNCHANGED <<target, attempt, coin, lastError>>
           ELSE rebalancePosition(position')
     \/ /\ pc' = "done"                       \* the read raises: rethrown
        /\ result' = Thrown(<<"raise", 0>>)
        /\ UNCHANGED <<position, target, attempt, coin, lastError>>
  /\ UNCHANGED <<monVars, mergeVars, amountVars, prev, discoveryVars, cfgVars, ledgerVars, poolInfo, histVars, botVars>>

\* getPositions, find the configured position, the in-range decision
getPositions ==
  /\ service = "simple"
  /\ pc = "getPositions"
  /\ \/ /\ position' = PositionSnapshot
        /\ IF ~position'.exists
           THEN /\ pc' = "done"               \* tracked position not found
                /\ result' = Null
                /\ UNCHANGED <<target, attempt, coin, lastError>>
           ELSE IF /\ isPositionInRange(position'.lower, position'.upper, poolInfo.tick)
                   /\ ~shouldRebalance(position', poolInfo.tick)
           THEN /\ pc' = "done"               \* no rebalance needed
                /\ result' = Null
                /\ UNCHANGED <<target, attempt, coin, lastError>>
           ELSE rebalancePosition(position')
     \/ /\ pc' = "done"                       \* the read raises: rethrown
        /\ result' = Thrown(<<"raise", 0>>)
        /\ UNCHANGED <<position, target, attempt, coin, lastError>>
  /\ UNCHANGED <<monVars, mergeVars, amountVars, prev, discoveryVars, cfgVars, ledgerVars, poolInfo, histVars, botVars>>

\* removeLiquidity before its loop: getPositionById, getPool and
\* removeLiquidityTransactionPayload; any of them raising leaves
\* removeLiquidity, and rebalancePosition catches
removeLiquidity ==
  /\ service = "simple"
  /\ pc = "removeLiquidity"
  /\ \/ /\ pc' = "removeLiquidityExecute"
        /\ attempt' = 0
        /\ lastError' = NoError
        /\ result' = result
     \/ /\ pc' = "done"
        /\ result' = Failure(<<"raise", 0>>)
        /\ UNCHANGED <<attempt, lastError>>
  /\ UNCHANGED <<monVars, mergeVars, amountVars, prev, discoveryVars, cfgVars, ledgerVars, poolInfo, position, target, coin, histVars, botVars>>

\* removeLiquidityExecute with the final throw lost: after the last failed
\* attempt removeLiquidity returns and rebalancePosition goes on to addLiquidity
removeLiquidityExecuteSwallows ==
  /\ service = "simple"
  /\ pc = "removeLiquidityExecute"
  /\ \E o \in RemoveOutcomes(position.liq) :
        /\ Submit("remove", o)
        /\ IF Executed(o)
           THEN /\ pos' = [pos EXCEPT !.liq = @ - position.liq]
                /\ coins' = [c \in CoinTypes |-> Min(coins[c] + 1, MaxCoins)]
           ELSE UNCHANGED <<pos, coins>>
        /\ flags' = [flags EXCEPT !.removeOk = (o = "success")]
        /\ result' = result
        /\ IF o = "success" \/ attempt + 1 >= MaxAttempts
           THEN EnterAddLiquidity
           ELSE /\ coin' = coin
                /\ lastError' = <<IF o = "failure" THEN "status" ELSE "raise", attempt>>
                /\ attempt' = attempt + 1
                /\ pc' = pc
  /\ UNCHANGED <<monVars, mergeVars, amountVars, prev, discoveryVars, cfgVars, tick, poolInfo, position, target, mergeCalls, botVars>>

\* one attempt of the remove-liquidity loop
removeLiquidityExecute ==
  /\ service = "simple"
  /\ pc = "removeLiquidityExecute"
  /\ \E o \in RemoveOutcomes(position.liq) :
        /\ Submit("remove", o)
        /\ IF Executed(o)
           THEN /\ pos' = [pos EXCEPT !.liq = @ - position.liq]
                /\ coins' = [c \in CoinTypes |-> Min(coins[c] + 1, MaxCoins)]
           ELSE UNCHANGED <<pos, coins>>
        /\ IF o = "success"
           THEN /\ flags' = [flags EXCEPT !.removeOk = TRUE]
                /\ EnterAddLiquidity
                /\ result' = result
           ELSE /\ flags' = flags
                /\ coin' = coin
                /\ AttemptFailed(IF o = "failure" THEN "status" ELSE "raise",
                                 "removeLiquidityExecute")
  /\ UNCHANGED <<monVars, mergeVars, amountVars, prev, discoveryVars, cfgVars, tick, poolInfo, position, target, mergeCalls, botVars>>

\* MergeReturns with the merge of the second coin type left out
MergeReturnsSkipsB ==
  /\ coin' = coin
  /\ pc' = "addLiquidityPayload"

\* what follows a mergeCoins that returned: the second coin type, then the
\* add-liquidity payload
MergeReturns ==
  IF coin = "A"
  THEN /\ coin' = "B"
       /\ pc' = "mergeCoins"
  ELSE /\ coin' = coin
       /\ pc' = "addLiquidityPayload"

\* an error inside the try block of the add-liquidity loop
AddAttemptFailed(err) ==
  /\ coin' = "A"
  /\ AttemptFailed(err, "mergeCoins")

\* mergeCoins with the early return written for no coin object only
mergeCoinsMergesSingle ==
  /\ service = "simple"
  /\ pc = "mergeCoins"
  /\ mergeCalls' = [mergeCalls EXCEPT ![attempt] = @ + 1]
  /\ \/ /\ IF coins[coin] < 1
           THEN MergeReturns
           ELSE /\ pc' = "mergeCoinsExecute"
                /\ coin' = coin
        /\ UNCHANGED <<attempt, lastError, result>>
     \/ AddAttemptFailed("raise")
  /\ UNCHANGED <<monVars, mergeVars, amountVars, prev, discoveryVars, cfgVars, ledgerVars, poolInfo, position, target, submitted, committed,
                 lastTx, flags, botVars>>

\* mergeCoins(coinType): getCoins, nothing to do with at most one coin object
mergeCoins ==
  /\ service = "simple"
  /\ pc = "mergeCoins"
  /\ mergeCalls' = [mergeCalls EXCEPT ![attempt] = @ + 1]
  /\ \/ /\ IF coins[coin] <= 1
           THEN MergeReturns
           ELSE /\ pc' = "mergeCoinsExecute"
                /\ coin' = coin
        /\ UNCHANGED <<attempt, lastError, result>>
     \/ AddAttemptFailed("raise")
  /\ UNCHANGED <<monVars, mergeVars, amountVars, prev, discoveryVars, cfgVars, ledgerVars, poolInfo, position, target, submitted, committed,
                 lastTx, flags, botVars>>

\* the merge transaction: every other coin object into the largest (a merge
\* executed behind a raised error is the raise followed by CoinsChange)
mergeCoinsExecute ==
  /\ service = "simple"
  /\ pc = "mergeCoinsExecute"
  /\ \E o \in TxOutcomes \ {"raiseCommitted"} :
        /\ Submit("merge", o)
        /\ coins' = IF Executed(o) THEN [coins EXCEPT ![coin] = 1] ELSE coins
        /\ IF o = "success"
           THEN /\ pc' = "mergeCoinsVerify"
                /\ UNCHANGED <<attempt, coin, lastError, result>>
           ELSE AddAttemptFailed(IF o = "failure" THEN "status" ELSE "raise")
  /\ UNCHANGED <<monVars, mergeVars, amountVars, prev, discoveryVars, cfgVars, tick, pos, poolInfo, position, target, mergeCalls, flags, botVars>>

\* mergeCoinsVerify without the second verification: fragmentation seen by
\* the first verification is the consolidation error at once
mergeCoinsVerifyThrowsAtOnce ==
  /\ service = "simple"
  /\ pc = "mergeCoinsVerify"
  /\ \/ /\ coins[coin] > 1
        /\ AddAttemptFailed("consolidationFailed")
     \/ /\ coins[coin] <= 1
        /\ MergeReturns
        /\ UNCHANGED <<attempt, lastError, result>>
     \/ AddAttemptFailed("raise")
  /\ UNCHANGED <<monVars, mergeVars, amountVars, prev, discoveryVars, cfgVars, ledgerVars, poolInfo, position, target, histVars, botVars>>

\* first verification after the finality delay
mergeCoinsVerify ==
  /\ service = "simple"
  /\ pc = "mergeCoinsVerify"
  /\ \/ /\ IF coins[coin] > 1
           THEN /\ pc' = "mergeCoinsSecondVerify"
                /\ coin' = coin
           ELSE MergeReturns
        /\ UNCHANGED <<attempt, lastError, result>>
     \/ AddAttemptFailed("raise")
  /\ UNCHANGED <<monVars, mergeVars, amountVars, prev, discoveryVars, cfgVars, ledgerVars, poolInfo, position, target, histVars, botVars>>

\* second verification after one more delay: still fragmented is an error
mergeCoinsSecondVerify ==
  /\ service = "simple"
  /\ pc = "mergeCoinsSecondVerify"
  /\ \/ /\ coins[coin] > 1
        /\ flags' = [flags EXCEPT !.consolidationFailed = TRUE]
        /\ AddAttemptFailed("consolidationFailed")
     \/ /\ coins[coin] <= 1
        /\ flags' = flags
        /\ MergeReturns
        /\ UNCHANGED <<attempt, lastError, result>>
     \/ /\ flags' = flags
        /\ AddAttemptFailed("raise")
  /\ UNCHANGED <<monVars, mergeVars, amountVars, prev, discoveryVars, cfgVars, ledgerVars, poolInfo, position, target, submitted, committed,
                 mergeCalls, lastTx, botVars>>

\* createAddLiquidityFixTokenPayload after the propagation delay
addLiquidityPayload ==
  /\ service = "simple"
  /\ pc = "addLiquidityPayload"
  /\ \/ /\ pc' = "addLiquidityExecute"
        /\ UNCHANGED <<attempt, coin, lastError, result>>
     \/ AddAttemptFailed("raise")
  /\ UNCHANGED <<monVars, mergeVars, amountVars, prev, discoveryVars, cfgVars, ledgerVars, poolInfo, position, target, histVars, botVars>>

\* addLiquidityExecute without the check of result.effects.status.status: a
\* transaction that returns is taken for a success
addLiquidityExecuteNoStatusCheck ==
  /\ service = "simple"
  /\ pc = "addLiquidityExecute"
  /\ \E o \in TxOutcomes :
        /\ Submit("add", o)
        /\ IF o \in {"success", "failure"}
           THEN /\ pc' = "done"
                /\ result' = Success("addDigest", Range(position.lower, position.upper),
                                     Range(target.lower, target.upper))
                /\ flags' = [flags EXCEPT !.addOk = TRUE]
                /\ UNCHANGED <<attempt, coin, lastError>>
           ELSE /\ flags' = flags
                /\ AddAttemptFailed("raise")
  /\ UNCHANGED <<monVars, mergeVars, amountVars, prev, discoveryVars, cfgVars, ledgerVars, poolInfo, position, target, mergeCalls, botVars>>

\* the open-position transaction of one attempt
addLiquidityExecute ==
  /\ service = "simple"
  /\ pc = "addLiquidityExecute"
  /\ \E o \in TxOutcomes :
        /\ Submit("add", o)
        /\ IF o = "success"
           THEN /\ pc' = "done"
                /\ result' = Success("addDigest", Range(position.lower, position.upper),
                                     Range(target.lower, target.upper))
                /\ flags' = [flags EXCEPT !.addOk = TRUE]
                /\ UNCHANGED <<attempt, coin, lastError>>
           ELSE /\ flags' = flags
                /\ AddAttemptFailed(IF o = "failure" THEN "status" ELSE "raise")
  /\ UNCHANGED <<monVars, mergeVars, amountVars, prev, discoveryVars, cfgVars, ledgerVars, poolInfo, position, target, mergeCalls, botVars>>

SimpleNext ==
  \/ checkAndRebalance
  \/ getPoolInfo
  \/ getPositions
  \/ removeLiquidity
  \/ removeLiquidityExecute
  \/ mergeCoins
  \/ mergeCoinsExecute
  \/ mergeCoinsVerify
  \/ mergeCoinsSecondVerify
  \/ addLiquidityPayload
  \/ addLiquidityExecute

\* ========================================================= RebalanceService
\* config.lowerTick / config.upperTick: [set, value] each
NoTick == [set |-> FALSE, value |-> 0]
Tick(v) == [set |-> TRUE, value |-> v]
Truthy(t) == t.set /\ t.value # 0          \* a number is truthy unless it is 0
ConfiguredTicks ==
  { [lower |-> NoTick, upper |-> NoTick],
    [lower |-> Tick(0 - 2), upper |-> Tick(2)],
    [lower |-> Tick(0), upper |-> Tick(2)],
    [lower |-> Tick(0 - 2), upper |-> NoTick] }

\* the unchanged-range check left out, as rebalance-simple.ts leaves it out
rangeNeverUnchanged(p, r, s) == FALSE

\* Math.abs(position.tickLower - lower) < poolInfo.tickSpacing && ...
rangeUnchanged(p, r, s) == Abs(p.lower - r.lower) < s /\ Abs(p.upper - r.upper) < s

\* the positions getPositions returns for the wallet: id and pool of each
Positions(w) == [i \in 1 .. Len(w) |-> [id |-> i, pool |-> w[i]]]
InTargetPool(p) == p.pool = "target"
\* positions.filter(p => p.poolAddress === poolAddress), the pool unfiltered
poolPositionsUnfiltered(ps) == ps
\* positions.filter(p => p.poolAddress === poolAddress)
poolPositions(ps) == SelectSeq(ps, InTargetPool)

\* checkAndRebalance(poolAddress) of RebalanceService, or a direct call of its
\* public rebalancePosition(poolAddress)
fullCheckAndRebalance ==
  /\ service = "full"
  /\ pc \in {"idle", "done"}
  /\ pc' \in {"monitorPosition", "fullGetPoolInfo"}
  /\ NoLocals
  /\ NoHistory
  /\ Remember
  /\ UNCHANGED <<monVars, mergeVars, amountVars, wallet, cfgVars, ledgerVars, botVars>>

\* const monitorResult = await this.monitorService.monitorPosition(poolAddress)
monitorPosition ==
  /\ service = "full"
  /\ pc = "monitorPosition"
  /\ \/ /\ pc' = "done"                       \* !monitorResult.needsRebalance
        /\ result' = Null
     \/ /\ pc' = "fullGetPoolInfo"            \* rebalancePosition(poolAddress)
        /\ result' = result
     \/ /\ pc' = "done"                       \* monitorPosition raises: rethrown
        /\ result' = Thrown(<<"raise", 0>>)
  /\ UNCHANGED <<monVars, mergeVars, amountVars, prev, discoveryVars, cfgVars, ledgerVars, poolInfo, position, target, attempt, coin, lastError,
                 histVars, botVars>>

\* fullGetPoolInfo outside the try block of rebalancePosition: the error of
\* the read leaves rebalancePosition as an exception
fullGetPoolInfoThrows ==
  /\ service = "full"
  /\ pc = "fullGetPoolInfo"
  /\ \/ /\ poolInfo' = [tick |-> tick, tickSpacing |-> tickSpacing]
        /\ pc' = "fullGetPositions"
        /\ result' = result
     \/ /\ pc' = "done"
        /\ result' = Thrown(<<"raise", 0>>)
        /\ poolInfo' = poolInfo
  /\ UNCHANGED <<monVars, mergeVars, amountVars, prev, discoveryVars, cfgVars, ledgerVars, position, target, attempt, coin, lastError,
                 histVars, botVars>>

fullGetPoolInfo ==
  /\ service = "full"
  /\ pc = "fullGetPoolInfo"
  /\ \/ /\ poolInfo' = [tick |-> tick, tickSpacing |-> tickSpacing]
        /\ pc' = "fullGetPositions"
        /\ result' = result
     \/ /\ pc' = "done"                       \* caught by rebalancePosition
        /\ result' = Failure(<<"raise", 0>>)
        /\ poolInfo' = poolInfo
  /\ UNCHANGED <<monVars, mergeVars, amountVars, prev, discoveryVars, cfgVars, ledgerVars, position, target, attempt, coin, lastError,
                 histVars, botVars>>

\* createNewPosition(poolInfo) up to its first await
createNewPosition ==
  /\ target' = IF Truthy(cfgTicks.lower) /\ Truthy(cfgTicks.upper)
               THEN [lower |-> cfgTicks.lower.value, upper |-> cfgTicks.upper.value]
               ELSE calculateOptimalRange(poolInfo.tick, poolInfo.tickSpacing, rangeWidth)
  /\ IF dryRun
     THEN /\ pc' = "done"
          /\ result' = Success("none", NoRange, Range(target'.lower, target'.upper))
     ELSE /\ pc' = "fullAddLiquidity"
          /\ result' = result

\* fullRebalancePosition without the dry-run return before removeLiquidity
fullRebalancePositionNoDryRunCheck(p) ==
  IF ~p.exists
  THEN \* poolPositions.length === 0
       IF dryRun
       THEN /\ target' = calculateOptimalRange(poolInfo.tick, poolInfo.tickSpacing, rangeWidth)
            /\ pc' = "done"
            /\ result' = Success("none", NoRange, Range(target'.lower, target'.upper))
       ELSE createNewPosition
  ELSE /\ target' = calculateOptimalRange(poolInfo.tick, poolInfo.tickSpacing, rangeWidth)
       /\ IF rangeUnchanged(p, target', poolInfo.tickSpacing)
          THEN /\ pc' = "done"
               /\ result' = Success("none", Range(p.lower, p.upper),
                                    Range(target'.lower, target'.upper))
          ELSE /\ pc' = "fullRemoveLiquidity"
               /\ result' = result

\* rebalancePosition of RebalanceService from the positions read to the
\* first await after it
fullRebalancePosition(p) ==
  IF ~p.exists
  THEN \* poolPositions.length === 0
       IF dryRun
       THEN /\ target' = calculateOptimalRange(poolInfo.tick, poolInfo.tickSpacing, rangeWidth)
            /\ pc' = "done"
            /\ result' = Success("none", NoRange, Range(target'.lower, target'.upper))
       ELSE createNewPosition
  ELSE /\ target' = calculateOptimalRange(poolInfo.tick, poolInfo.tickSpacing, rangeWidth)
       /\ IF rangeUnchanged(p, target', poolInfo.tickSpacing) \/ dryRun
          THEN /\ pc' = "done"
               /\ result' = Success("none", Range(p.lower, p.upper),
                                    Range(target'.lower, target'.upper))
          ELSE /\ pc' = "fullRemoveLiquidity"
               /\ result' = result

fullGetPositions ==
  /\ service = "full"
  /\ pc = "fullGetPositions"
  /\ \/ /\ IF poolPositions(Positions(wallet)) = <<>>
           THEN position' = NoPosition /\ subject' = 0
           ELSE position' = PositionSnapshot
                /\ subject' = Head(poolPositions(Positions(wallet))).id
        /\ fullRebalancePosition(position')
     \/ /\ pc' = "done"
        /\ result' = Failure(<<"raise", 0>>)
        /\ UNCHANGED <<position, target, subject>>
  /\ UNCHANGED <<monVars, mergeVars, amountVars, prev, wallet, cfgVars, ledgerVars, poolInfo, attempt, coin, lastError, histVars, botVars>>

\* removeLiquidity of RebalanceService up to the transaction: getPositions,
\* find the position, removeLiquidityTransactionPayload
fullRemoveLiquidity ==
  /\ service = "full"
  /\ pc = "fullRemoveLiquidity"
  /\ \/ /\ pos.exists
        /\ pc' = "fullRemoveLiquidityExecute"
        /\ result' = result
     \/ /\ pc' = "done"                       \* a read raises, or position not found
        /\ result' = Failure(<<"raise", 0>>)
  /\ UNCHANGED <<monVars, mergeVars, amountVars, prev, discoveryVars, cfgVars, ledgerVars, poolInfo, position, target, attempt, coin, lastError,
                 histVars, botVars>>

\* signAndExecuteTransactionBlock of the remove payload: one attempt
fullRemoveLiquidityExecute ==
  /\ service = "full"
  /\ pc = "fullRemoveLiquidityExecute"
  /\ \E o \in RemoveOutcomes(position.liq) :
        /\ Submit("remove", o)
        /\ IF Executed(o)
           THEN /\ pos' = [pos EXCEPT !.liq = @ - position.liq]
                /\ coins' = [c \in CoinTypes |-> Min(coins[c] + 1, MaxCoins)]
           ELSE UNCHANGED <<pos, coins>>
        /\ IF o = "success"
           THEN /\ flags' = [flags EXCEPT !.removeOk = TRUE]
                /\ pc' = "fullAddLiquidity"
                /\ result' = result
           ELSE /\ flags' = flags
                /\ pc' = "done"
                /\ result' = Failure(<<IF o = "failure" THEN "status" ELSE "raise", 0>>)
  /\ UNCHANGED <<monVars, mergeVars, amountVars, prev, discoveryVars, cfgVars, tick, poolInfo, position, target, attempt, coin, lastError,
                 mergeCalls, botVars>>

\* addLiquidity of RebalanceService up to the transaction: the two balance
\* reads, the amounts and their zero check, openPositionTransactionPayload
fullAddLiquidity ==
  /\ service = "full"
  /\ pc = "fullAddLiquidity"
  /\ \/ /\ pc' = "fullAddLiquidityExecute"
        /\ result' = result
     \/ /\ pc' = "done"
        /\ result' = Failure(<<"raise", 0>>)
  /\ UNCHANGED <<monVars, mergeVars, amountVars, prev, discoveryVars, cfgVars, ledgerVars, poolInfo, position, target, attempt, coin, lastError,
                 histVars, botVars>>

\* signAndExecuteTransactionBlock of the open-position payload: one attempt
fullAddLiquidityExecute ==
  /\ service = "full"
  /\ pc = "fullAddLiquidityExecute"
  /\ \E o \in TxOutcomes :
        /\ Submit("add", o)
        /\ flags' = [flags EXCEPT !.addOk = (o = "success")]
        /\ pc' = "done"
        /\ result' = IF o = "success"
                     THEN Success("openDigest",
                                  IF position.exists
                                  THEN Range(position.lower, position.upper) ELSE NoRange,
                                  Range(target.lower, target.upper))
                     ELSE Failure(<<IF o = "failure" THEN "status" ELSE "raise", 0>>)
  /\ UNCHANGED <<monVars, mergeVars, amountVars, prev, discoveryVars, cfgVars, ledgerVars, poolInfo, position, target, attempt, coin, lastError,
                 mergeCalls, botVars>>

FullNext ==
  \/ fullCheckAndRebalance
  \/ monitorPosition
  \/ fullGetPoolInfo
  \/ fullGetPositions
  \/ fullRemoveLiquidity
  \/ fullRemoveLiquidityExecute
  \/ fullAddLiquidity
  \/ fullAddLiquidityExecute

\* ------------------------------------------------------------ Spec
InitialRanges(s) == {<<0, s>>, <<0 - s, s>>}

\* no method of the monitor has been called
NoCall == [op |-> "none", lower |-> 0, upper |-> 0, inRange |-> FALSE,
           t |-> 0, s |-> 1, w |-> 0]
NoReturn == [done |-> FALSE, value |-> FALSE, lower |-> 0, upper |-> 0]
MonitorIdle ==
  /\ monitorCall = NoCall
  /\ monitorReturn = NoReturn

\* the lists getPositions can return: each position in the target pool or not
Wallets == UNION {[1 .. n -> {"target", "other"}] : n \in 0 .. MaxPositions}
HoldsTarget(w) == \E i \in 1 .. Len(w) : w[i] = "target"
\* addLiquidity of RebalanceService has not been called
NoAmount == [set |-> FALSE, value |-> 0]
NoAddCall == [cfgA |-> NoAmount, cfgB |-> NoAmount, balA |-> 0, balB |-> 0]
NoAmounts == [done |-> FALSE, rejected |-> FALSE, a |-> 0, b |-> 0]
AmountIdle ==
  /\ addCall = NoAddCall
  /\ addAmounts = NoAmounts
\* mergeCoins has not been called
NoMergeTx == [returned |-> FALSE, count |-> 0, primary |-> 0, sources |-> <<>>]
MergeIdle ==
  /\ allCoins = <<>>
  /\ mergeTx = NoMergeTx

BotIdle ==
  /\ isRunning = FALSE
  /\ intervalId = 0
  /\ timers = 0
  /\ starts = [p \in {"validateSetup", "performCheck"} |-> 0]
  /\ inFlight = 0
  /\ botlog = "constructed"

\* no cycle has run yet
CycleIdle ==
  /\ pc = "idle"
  /\ poolInfo = [tick |-> 0, tickSpacing |-> tickSpacing]
  /\ position = NoPosition
  /\ target = [lower |-> 0, upper |-> 0]
  /\ attempt = 0
  /\ coin = "A"
  /\ lastError = NoError
  /\ result = NoResult
  /\ submitted = [k \in TxKinds |-> 0]
  /\ committed = [k \in TxKinds |-> 0]
  /\ mergeCalls = [a \in 0 .. MaxAttempts - 1 |-> 0]
  /\ lastTx = NoTx
  /\ flags = NoFlags

Init ==
  /\ service \in Services
  /\ dryRun \in BOOLEAN
  /\ cfgTicks \in (IF service = "full" THEN ConfiguredTicks
                   ELSE {[lower |-> NoTick, upper |-> NoTick]})
  /\ tickSpacing \in TickSpacings
  /\ rangeWidth \in RangeWidths
  /\ tick = 0
  /\ \E r \in InitialRanges(tickSpacing), l \in 0 .. MaxLiquidity, e \in BOOLEAN :
        pos = IF e THEN [exists |-> TRUE, lower |-> r[1], upper |-> r[2], liq |-> l]
              ELSE [exists |-> FALSE, lower |-> 0, upper |-> 0, liq |-> 0]
  /\ coins = [c \in CoinTypes |-> 1]
  /\ wallet \in (IF service = "full" THEN {w \in Wallets : HoldsTarget(w) <=> pos.exists}
                 ELSE {IF pos.exists THEN <<"target">> ELSE <<>>})
  /\ subject = 0
  /\ CycleIdle
  /\ BotIdle
  /\ MonitorIdle
  /\ MergeIdle
  /\ AmountIdle
  /\ prev = NoPrev

Next ==
  \/ PriceMoves
  \/ CoinsChange
  \/ SimpleNext
  \/ FullNext

Spec == Init /\ [][Next]_vars

\* ======================================================== CetusRebalanceBot
\* The scheduler of index-simple.ts (service = "simple": start() awaits
\* validateSetup before it sets isRunning) and of bot.ts (service = "full":
\* no validation). A performCheck is in flight from its call to the end of
\* its awaited checkAndRebalance; what the cycle does is in Spec.
CycleOutcomes == {"null", "success", "failure", "thrown"}
StartsInFlight == starts["validateSetup"] + starts["performCheck"]
\* check cycles in flight: initial checks of start() calls and timer ticks
CyclesInFlight == starts["performCheck"] + inFlight

\* start() is called
start ==
  /\ timers + StartsInFlight < MaxTimers
  /\ IF isRunning
     THEN /\ botlog' = "startIgnored"          \* 'Bot is already running'
          /\ UNCHANGED <<isRunning, starts>>
     ELSE IF service = "simple"
     THEN /\ starts' = [starts EXCEPT !["validateSetup"] = @ + 1]
          /\ botlog' = "start"
          /\ UNCHANGED isRunning
     ELSE /\ isRunning' = TRUE
          /\ starts' = [starts EXCEPT !["performCheck"] = @ + 1]
          /\ botlog' = "start"
  /\ UNCHANGED <<monVars, mergeVars, amountVars, prev, discoveryVars, cfgVars, ledgerVars, cycleVars, histVars, intervalId, timers, inFlight>>

\* validateSetup with the position check only logged, as the balance check
\* is: a position that is not found does not stop the start
validateSetupContinues ==
  /\ starts["validateSetup"] > 0
  /\ \/ /\ isRunning' = TRUE                    \* then the initial performCheck
        /\ starts' = [starts EXCEPT !["validateSetup"] = @ - 1, !["performCheck"] = @ + 1]
        /\ botlog' = "validated"
     \/ /\ starts' = [starts EXCEPT !["validateSetup"] = @ - 1]
        /\ botlog' = "startRejected"           \* start() rejects
        /\ UNCHANGED isRunning
  /\ UNCHANGED <<monVars, mergeVars, amountVars, prev, discoveryVars, cfgVars, ledgerVars, cycleVars, histVars, intervalId, timers, inFlight>>

\* await this.validateSetup() returns or throws
validateSetup ==
  /\ starts["validateSetup"] > 0
  /\ \/ /\ pos.exists                          \* pool read, tracked position found
        /\ isRunning' = TRUE                    \* then the initial performCheck
        /\ starts' = [starts EXCEPT !["validateSetup"] = @ - 1, !["performCheck"] = @ + 1]
        /\ botlog' = "validated"
     \/ /\ starts' = [starts EXCEPT !["validateSetup"] = @ - 1]
        /\ botlog' = "startRejected"           \* start() rejects
        /\ UNCHANGED isRunning
  /\ UNCHANGED <<monVars, mergeVars, amountVars, prev, discoveryVars, cfgVars, ledgerVars, cycleVars, histVars, intervalId, timers, inFlight>>

\* the initial performCheck of a start() call ends, whatever its outcome;
\* start() goes on to setInterval and returns
startSchedules ==
  /\ starts["performCheck"] > 0
  /\ botlog' = "started"
  /\ starts' = [starts EXCEPT !["performCheck"] = @ - 1]
  /\ intervalId' = 1
  /\ timers' = timers + 1
  /\ UNCHANGED <<monVars, mergeVars, amountVars, prev, discoveryVars, cfgVars, ledgerVars, cycleVars, histVars, isRunning, inFlight>>

\* a live timer fires: its callback calls performCheck
timerTick ==
  /\ timers > 0
  /\ inFlight < MaxInFlight
  /\ inFlight' = inFlight + 1
  /\ botlog' = "tick"
  /\ UNCHANGED <<monVars, mergeVars, amountVars, prev, discoveryVars, cfgVars, ledgerVars, cycleVars, histVars, isRunning, intervalId, timers, starts>>

\* performCheck without its catch: a rejected checkAndRebalance stops the bot
performCheckStopsOnError ==
  /\ inFlight > 0
  /\ inFlight' = inFlight - 1
  /\ \E o \in {"null", "success", "failure", "thrown"} :
        /\ botlog' = o
        /\ IF o = "thrown"
           THEN isRunning' = FALSE /\ timers' = 0 /\ intervalId' = 0
           ELSE UNCHANGED <<isRunning, intervalId, timers>>
  /\ UNCHANGED <<monVars, mergeVars, amountVars, prev, discoveryVars, cfgVars, ledgerVars, cycleVars, histVars, starts>>

\* the performCheck of a timer tick ends: the result is logged, an error is
\* caught and logged
performCheck ==
  /\ inFlight > 0
  /\ inFlight' = inFlight - 1
  /\ \E o \in CycleOutcomes : botlog' = o
  /\ UNCHANGED <<monVars, mergeVars, amountVars, prev, discoveryVars, cfgVars, ledgerVars, cycleVars, histVars, isRunning, intervalId, timers, starts>>

\* stop() is called
stop ==
  /\ IF ~isRunning
     THEN /\ botlog' = "stopIgnored"           \* 'Bot is not running'
          /\ UNCHANGED <<isRunning, intervalId, timers>>
     ELSE /\ isRunning' = FALSE
          /\ botlog' = "stopped"
          /\ IF intervalId # 0
             THEN /\ timers' = timers - 1       \* clearInterval(this.intervalId)
                  /\ intervalId' = 0
             ELSE UNCHANGED <<intervalId, timers>>
  /\ UNCHANGED <<monVars, mergeVars, amountVars, prev, discoveryVars, cfgVars, ledgerVars, cycleVars, histVars, starts, inFlight>>

BotInit ==
  /\ service \in Services
  /\ dryRun = FALSE
  /\ cfgTicks = [lower |-> NoTick, upper |-> NoTick]
  /\ tickSpacing = 1
  /\ rangeWidth = 0
  /\ tick = 0
  /\ pos \in {[exists |-> TRUE, lower |-> 0, upper |-> 1, liq |-> 1],
              [exists |-> FALSE, lower |-> 0, upper |-> 0, liq |-> 0]}
  /\ coins = [c \in CoinTypes |-> 1]
  /\ wallet = IF pos.exists THEN <<"target">> ELSE <<>>
  /\ subject = 0
  /\ CycleIdle
  /\ BotIdle
  /\ MonitorIdle
  /\ MergeIdle
  /\ AmountIdle
  /\ prev = NoPrev

BotNext ==
  \/ start
  \/ validateSetup
  \/ startSchedules
  \/ timerTick
  \/ performCheck
  \/ stop

BotSpec == BotInit /\ [][BotNext]_vars

\* =================================================== PositionMonitorService
\* The three pure methods of the monitor. MonitorSpec starts with one call
\* pending, its arguments drawn from bounded sets; the method's action
\* applies it and records what it returned.
MonitorTicks == (0 - MaxMonitorTick) .. MaxMonitorTick
MonitorSpacings == 1 .. MaxSpacing
MonitorWidths == 0 .. MaxWidth               \* 0: config.rangeWidth not set
MonitorBounds == {10 * k : k \in (0 - MaxBound) .. MaxBound}
PositionTicks == (0 - 10 * MaxBound - 1) .. (10 * MaxBound + 1)

MonitorCalls ==
  {[NoCall EXCEPT !.op = "calculateOptimalRange", !.t = t, !.s = s, !.w = w] :
      t \in MonitorTicks, s \in MonitorSpacings, w \in MonitorWidths}
  \cup
  {[NoCall EXCEPT !.op = o, !.lower = r[1], !.upper = r[2], !.inRange = f, !.t = t] :
      o \in {"shouldRebalance"},
      r \in {q \in MonitorBounds \X MonitorBounds : q[1] < q[2]},
      f \in BOOLEAN, t \in PositionTicks}
  \cup
  {[NoCall EXCEPT !.op = o, !.lower = r[1], !.upper = r[2], !.t = t] :
      o \in {"isPositionInRange"},
      r \in {q \in MonitorBounds \X MonitorBounds : q[1] < q[2]},
      t \in PositionTicks}

Returned(v) == [done |-> TRUE, value |-> v, lower |-> 0, upper |-> 0]
ReturnedRange(r) == [done |-> TRUE, value |-> FALSE, lower |-> r.lower, upper |-> r.upper]

\* monitorService.calculateOptimalRange(currentTick, tickSpacing)
callCalculateOptimalRange ==
  /\ monitorCall.op = "calculateOptimalRange"
  /\ ~monitorReturn.done
  /\ monitorReturn' = ReturnedRange(calculateOptimalRange(monitorCall.t, monitorCall.s,
                                                          monitorCall.w))
  /\ UNCHANGED <<monitorCall, mergeVars, amountVars, prev, discoveryVars, cfgVars, ledgerVars, cycleVars, histVars, botVars>>

\* monitorService.isPositionInRange(tickLower, tickUpper, currentTick)
callIsPositionInRange ==
  /\ monitorCall.op = "isPositionInRange"
  /\ ~monitorReturn.done
  /\ monitorReturn' = Returned(isPositionInRange(monitorCall.lower, monitorCall.upper,
                                                 monitorCall.t))
  /\ UNCHANGED <<monitorCall, mergeVars, amountVars, prev, discoveryVars, cfgVars, ledgerVars, cycleVars, histVars, botVars>>

\* monitorService.shouldRebalance(position, poolInfo)
callShouldRebalance ==
  /\ monitorCall.op = "shouldRebalance"
  /\ ~monitorReturn.done
  /\ monitorReturn' = Returned(shouldRebalance(monitorCall, monitorCall.t))
  /\ UNCHANGED <<monitorCall, mergeVars, amountVars, prev, discoveryVars, cfgVars, ledgerVars, cycleVars, histVars, botVars>>

MonitorInit ==
  /\ service = "simple"
  /\ dryRun = FALSE
  /\ cfgTicks = [lower |-> NoTick, upper |-> NoTick]
  /\ tickSpacing = 1
  /\ rangeWidth = 0
  /\ tick = 0
  /\ pos = [exists |-> TRUE, lower |-> 0, upper |-> 1, liq |-> 1]
  /\ coins = [c \in CoinTypes |-> 1]
  /\ CycleIdle
  /\ BotIdle
  /\ wallet = <<"target">>
  /\ subject = 0
  /\ MergeIdle
  /\ AmountIdle
  /\ prev = NoPrev
  /\ monitorCall \in MonitorCalls
  /\ monitorReturn = NoReturn

MonitorNext ==
  \/ callCalculateOptimalRange
  \/ callIsPositionInRange
  \/ callShouldRebalance

MonitorSpec == MonitorInit /\ [][MonitorNext]_vars

\* ============================================ mergeCoins: the transaction
\* What mergeCoins makes of the coin objects getCoins returned. MergeSpec
\* starts with one list of coin objects and has the one step from the read to
\* the transaction handed to signAndExecuteTransaction; the outcomes of that
\* transaction and the verification reads are in Spec.
Balances == 0 .. MaxBalance
CoinLists == UNION {[1 .. n -> Balances] : n \in 0 .. MaxRecords}
\* allCoins.data: coinObjectId (the index in the list) and balance of each
Coins(bs) == [i \in 1 .. Len(bs) |-> [coinObjectId |-> i, balance |-> bs[i]]]

\* the place of cs[i] after a stable sort with the comparator written the
\* other way round: smaller balances first
RankAscending(cs, i) ==
  1 + Cardinality({j \in 1 .. Len(cs) :
                     \/ cs[j].balance < cs[i].balance
                     \/ cs[j].balance = cs[i].balance /\ j < i})
sortedCoinsAscending(cs) ==
  [k \in 1 .. Len(cs) |-> cs[CHOOSE i \in 1 .. Len(cs) : RankAscending(cs, i) = k]]

\* the place of cs[i] after [...cs].sort(comparator): the comparator puts b
\* before a when balance(b) > balance(a) and the sort is stable, so the
\* coins before cs[i] are those with a larger balance and those with the
\* same balance that came earlier
Rank(cs, i) ==
  1 + Cardinality({j \in 1 .. Len(cs) :
                     \/ cs[j].balance > cs[i].balance
                     \/ cs[j].balance = cs[i].balance /\ j < i})
sortedCoins(cs) ==
  [k \in 1 .. Len(cs) |-> cs[CHOOSE i \in 1 .. Len(cs) : Rank(cs, i) = k]]
\* sortedCoins.slice(1).map(coin => coin.coinObjectId)
coinsToMerge(sorted) == [k \in 1 .. Len(sorted) - 1 |-> sorted[k + 1].coinObjectId]

\* mergeCoins from the coins read to the transaction it executes
mergeCoinsTransaction ==
  /\ ~mergeTx.returned
  /\ mergeTx' =
       IF Len(allCoins) <= 1
       THEN [returned |-> TRUE, count |-> 0, primary |-> 0, sources |-> <<>>]
       ELSE [returned |-> TRUE, count |-> 1,
             primary |-> sortedCoins(Coins(allCoins))[1].coinObjectId,
             sources |-> coinsToMerge(sortedCoins(Coins(allCoins)))]
  /\ UNCHANGED <<allCoins, monVars, amountVars, prev, discoveryVars, cfgVars, ledgerVars, cycleVars, histVars, botVars>>

MergeInit ==
  /\ service = "simple"
  /\ dryRun = FALSE
  /\ cfgTicks = [lower |-> NoTick, upper |-> NoTick]
  /\ tickSpacing = 1
  /\ rangeWidth = 0
  /\ tick = 0
  /\ pos = [exists |-> TRUE, lower |-> 0, upper |-> 1, liq |-> 1]
  /\ coins = [c \in CoinTypes |-> 1]
  /\ CycleIdle
  /\ BotIdle
  /\ MonitorIdle
  /\ wallet = <<"target">>
  /\ subject = 0
  /\ allCoins \in CoinLists
  /\ mergeTx = NoMergeTx
  /\ AmountIdle
  /\ prev = NoPrev

MergeNext == mergeCoinsTransaction

MergeSpec == MergeInit /\ [][MergeNext]_vars

\* ===================================== RebalanceService.addLiquidity: amounts
\* The amounts addLiquidity takes for the two tokens. AmountSpec starts with
\* one configuration and one pair of wallet balances and has the one step
\* from the balance reads to the zero check.
Max(a, b) == IF a > b THEN a ELSE b
Amount(v) == [set |-> TRUE, value |-> v]
\* config.tokenAAmount / tokenBAmount: not set, '0', or an amount
ConfiguredAmounts == {NoAmount, Amount(0), Amount(2 * MinAmount)}
\* balance.totalBalance of a token
WalletBalances ==
  {(k * MinAmount) \div 2 : k \in 0 .. MaxBalanceUnits}
    \cup {k * MinAmount * BalanceShare : k \in 1 .. 2}
AddCalls == [cfgA : ConfiguredAmounts, cfgB : ConfiguredAmounts,
             balA : WalletBalances, balB : WalletBalances]

\* config.tokenAAmount || String(Math.max(1000, Number(BigInt(totalBalance) / 10n)))
\* (a configured amount is a non-empty string, '0' included, hence truthy)
chooseAmount(cfg, balance) ==
  IF cfg.set THEN cfg.value ELSE Max(MinAmount, balance \div BalanceShare)

\* addLiquidity from the balance reads to the zero check of the amounts
addLiquidityAmounts ==
  /\ ~addAmounts.done
  /\ addAmounts' =
       [done |-> TRUE,
        rejected |-> \/ chooseAmount(addCall.cfgA, addCall.balA) = 0
                     \/ chooseAmount(addCall.cfgB, addCall.balB) = 0,
        a |-> chooseAmount(addCall.cfgA, addCall.balA),
        b |-> chooseAmount(addCall.cfgB, addCall.balB)]
  /\ UNCHANGED <<addCall, prev, monVars, mergeVars, discoveryVars, cfgVars, ledgerVars, cycleVars, histVars, botVars>>

AmountInit ==
  /\ service = "full"
  /\ dryRun = FALSE
  /\ cfgTicks = [lower |-> NoTick, upper |-> NoTick]
  /\ tickSpacing = 1
  /\ rangeWidth = 0
  /\ tick = 0
  /\ pos = [exists |-> TRUE, lower |-> 0, upper |-> 1, liq |-> 1]
  /\ coins = [c \in CoinTypes |-> 1]
  /\ CycleIdle
  /\ BotIdle
  /\ MonitorIdle
  /\ MergeIdle
  /\ wallet = <<"target">>
  /\ subject = 0
  /\ addCall \in AddCalls
  /\ addAmounts = NoAmounts
  /\ prev = NoPrev

AmountNext == addLiquidityAmounts

AmountSpec == AmountInit /\ [][AmountNext]_vars

\* ==================================================== consecutive cycles
\* SimpleRebalanceService called cycle after cycle by its scheduler, each
\* cycle awaited to its end (performCheck awaits checkAndRebalance), the
\* outcome of the cycle before kept in prev. The scheduler keeps calling and
\* every awaited call returns or raises, hence the weak fairness of the
\* service's steps; the market and other transfers owe nothing.
CycleInit ==
  /\ service = "simple"
  /\ dryRun = FALSE
  /\ cfgTicks = [lower |-> NoTick, upper |-> NoTick]
  /\ tickSpacing = 1
  /\ rangeWidth = 0
  /\ tick = 0
  /\ \E r \in InitialRanges(tickSpacing), l \in 0 .. MaxLiquidity :
        pos = [exists |-> TRUE, lower |-> r[1], upper |-> r[2], liq |-> l]
  /\ coins = [c \in CoinTypes |-> 1]
  /\ wallet = <<"target">>
  /\ subject = 0
  /\ CycleIdle
  /\ BotIdle
  /\ MonitorIdle
  /\ MergeIdle
  /\ AmountIdle
  /\ prev = [NoPrev EXCEPT !.on = TRUE]

CycleNext ==
  \/ PriceMoves
  \/ PriceMovesDuringAdd
  \/ CoinsChange
  \/ SimpleNext

CycleSpec == CycleInit /\ [][CycleNext]_vars /\ WF_vars(SimpleNext)

\* ================================================================= claims
Simple == service = "simple"
Full == service = "full"
AddLoopPcs == {"mergeCoins", "mergeCoinsExecute", "mergeCoinsVerify",
               "mergeCoinsSecondVerify", "addLiquidityPayload", "addLiquidityExecute"}
\* the range calculateOptimalRange gives for the cycle's pool snapshot
FreshTarget == calculateOptimalRange(poolInfo.tick, poolInfo.tickSpacing, rangeWidth)
\* the snapshot's range differs from r by less than one tick spacing on both bounds
WithinOneSpacing(r) ==
  /\ Abs(position.lower - r.lower) < poolInfo.tickSpacing
  /\ Abs(position.upper - r.upper) < poolInfo.tickSpacing
NoTransactions == \A k \in TxKinds : submitted[k] = 0

\* C1 (BotSpec): at most one check cycle is in flight at any time: a timer
\* tick never starts a performCheck while an earlier one has not finished.
C1_TimerTickWaitsForCycle ==
  [][inFlight' = inFlight + 1 => CyclesInFlight = 0]_vars

\* C2: within one cycle of SimpleRebalanceService the ledger executes at most
\* one remove-liquidity and at most one open-position transaction, whatever
\* the outcome of each attempt.
C2_IdempotentRetries ==
  Simple => committed["remove"] <= 1 /\ committed["add"] <= 1

\* C3: remove and add are each submitted at most twice per cycle; the second
\* attempt runs only after the first failed; a success ends the retrying;
\* after two failed attempts the error of the last attempt is the cycle's
\* failure.
C3_BoundedRetries ==
  Simple =>
    /\ submitted["remove"] <= 2
    /\ submitted["add"] <= 2
    /\ (pc = "removeLiquidityExecute" /\ attempt >= 1)
          => lastError # NoError /\ lastError[2] = attempt - 1 /\ ~flags.removeOk
    /\ (pc \in AddLoopPcs /\ attempt >= 1)
          => lastError # NoError /\ lastError[2] = attempt - 1 /\ ~flags.addOk
    /\ flags.removeOk => pc \notin {"removeLiquidity", "removeLiquidityExecute"}
    /\ flags.addOk => pc = "done" /\ result.success
    /\ (pc = "done" /\ submitted["remove"] = 2 /\ ~flags.removeOk)
          => result = Failure(lastError) /\ lastError[1] # "none" /\ lastError[2] = 1
    /\ (pc = "done" /\ submitted["add"] = 2 /\ ~flags.addOk)
          => result = Failure(lastError) /\ lastError[1] # "none" /\ lastError[2] = 1
C3_Witness ==
  /\ Simple /\ pc = "done" /\ submitted["add"] = 2 /\ ~flags.addOk
  /\ submitted["remove"] = 2 /\ flags.removeOk

\* C4: consolidation runs once per cycle: the second add-liquidity attempt
\* does not call mergeCoins again.
C4_ConsolidationOncePerCycle == Simple => mergeCalls[1] = 0

\* C5: once consolidation has failed (coins still fragmented after the second
\* verification) the cycle is aborted: no add-liquidity transaction follows
\* in that cycle and the cycle reports failure.
C5_ConsolidationFailureAborts ==
  [][(Simple /\ flags.consolidationFailed) =>
        /\ submitted'["add"] <= submitted["add"]
        /\ ~(result'.kind = "result" /\ result'.success)]_vars

\* C6: a remove, add or merge transaction that returns with a status other
\* than success is handled as a failure, exactly as a raised error is: no
\* success flag, no success result, no digest; in SimpleRebalanceService the
\* next attempt while one is left, else the cycle's failure carrying that
\* error; in RebalanceService the cycle's failure at once.
ErrorClass(o) == IF o = "failure" THEN "status" ELSE "raise"
HandledAsFailure(k, o) ==
  /\ flags' = flags
  /\ ~result'.success
  /\ result'.digest = "none"
  /\ IF Simple /\ attempt + 1 < 2
     THEN /\ attempt' = attempt + 1
          /\ pc' = (IF k = "remove" THEN "removeLiquidityExecute" ELSE "mergeCoins")
          /\ lastError' = <<ErrorClass(o), attempt>>
          /\ result' = result
     ELSE /\ pc' = "done"
          /\ result' = Failure(<<ErrorClass(o), IF Simple THEN attempt ELSE 0>>)
C6_StatusFailureIsFailure ==
  [][\A k \in TxKinds :
        (submitted'[k] = submitted[k] + 1 /\ lastTx'.outcome # "success")
           => HandledAsFailure(k, lastTx'.outcome)]_vars
C6_Witness ==
  /\ Simple /\ lastTx = [kind |-> "add", outcome |-> "failure"]
  /\ pc = "done" /\ result = Failure(<<"status", 1>>)

\* C7 as claimed: rebalancePosition of SimpleRebalanceService issues a
\* remove-liquidity transaction if and only if the position's liquidity is
\* non-zero.
C7_RemoveIffLiquidity ==
  (Simple /\ pc = "done" /\ result.kind = "result")
     => (submitted["remove"] > 0 <=> position.liq > 0)
\* C7 as amended: a remove-liquidity transaction is issued only for non-zero
\* liquidity, and with non-zero liquidity it is issued before anything else
\* unless the lookups and payload construction that precede it raise, which
\* fails the cycle with no transaction at all; with zero liquidity removal is
\* skipped and the cycle goes straight to consolidation and add-liquidity.
C7_RemoveOnlyWithLiquidity ==
  (Simple /\ position.exists /\ result.kind # "null") =>
    /\ submitted["remove"] > 0 => position.liq > 0
    /\ position.liq = 0 =>
          /\ pc \notin {"removeLiquidity", "removeLiquidityExecute"}
          /\ pc = "mergeCoins" \/ mergeCalls[0] >= 1
    /\ (position.liq > 0 /\ submitted["remove"] = 0) =>
          \/ pc \in {"removeLiquidity", "removeLiquidityExecute"}
          \/ /\ pc = "done"
             /\ result = Failure(<<"raise", 0>>)
             /\ NoTransactions
             /\ mergeCalls[0] = 0
C7_Witness ==
  /\ Simple /\ position.exists /\ position.liq = 0
  /\ submitted["remove"] = 0 /\ submitted["add"] > 0

\* C8: when remove-liquidity fails on both attempts the cycle reports
\* {success: false} and issues no merge and no add-liquidity; an
\* add-liquidity transaction is submitted only after a remove-liquidity with
\* success status in the same cycle, or when the position held no liquidity.
C8_NoAddAfterFailedRemove ==
  /\ (Simple /\ submitted["remove"] = 2 /\ ~flags.removeOk) =>
        /\ pc = "done"
        /\ result = Failure(lastError)
        /\ mergeCalls[0] = 0
        /\ submitted["merge"] = 0
        /\ submitted["add"] = 0
  /\ (submitted["add"] > 0 \/ submitted["merge"] > 0)
        => flags.removeOk \/ position.liq = 0
C8_Witness ==
  /\ Simple /\ pc = "done" /\ submitted["remove"] = 2 /\ ~flags.removeOk
  /\ position.liq > 0

\* C9: RebalanceService.rebalancePosition, existing position whose range is
\* within one tick spacing of the freshly computed target on both bounds:
\* success, old and new range reported and equal, zero transactions.
C9_FullSkipsUnchangedRange ==
  (Full /\ position.exists /\ WithinOneSpacing(FreshTarget)) =>
    /\ pc = "done"
    /\ target = FreshTarget
    /\ result = Success("none", Range(position.lower, position.upper),
                        Range(target.lower, target.upper))
    /\ result.newPosition = result.oldPosition
    /\ NoTransactions
C9_Witness ==
  /\ Full /\ ~dryRun /\ position.exists /\ position.liq > 0
  /\ WithinOneSpacing(FreshTarget)
  /\ pc = "done" /\ result.success

\* C10: SimpleRebalanceService skips the rebalance, with zero transactions,
\* when the fresh target is within one tick spacing of the old range on both
\* bounds.
C10_SimpleSkipsUnchangedRange ==
  (Simple /\ position.exists /\ WithinOneSpacing(FreshTarget)) =>
     NoTransactions /\ mergeCalls[0] = 0

\* C11: for a tracked position that is found, checkAndRebalance of
\* SimpleRebalanceService returns null with zero transactions if and only if
\* the tick is in [lower, upper] and shouldRebalance is false (flag set, tick
\* at least 5% of the width away from both bounds); otherwise it enters
\* rebalancePosition, which happens once per cycle, at the decision. With
\* position [-1000, 1000] a check at tick -950 rebalances, one at tick 0 does not.
C11_Quiet ==
  /\ position.lower <= poolInfo.tick /\ poolInfo.tick <= position.upper
  /\ position.inRange
  /\ 20 * (poolInfo.tick - position.lower) >= position.upper - position.lower
  /\ 20 * (position.upper - poolInfo.tick) >= position.upper - position.lower
C11_Decided ==
  (Simple /\ position.exists /\ pc \notin {"idle", "getPoolInfo", "getPositions"}) =>
    /\ result = Null <=> C11_Quiet
    /\ C11_Quiet => pc = "done" /\ NoTransactions /\ mergeCalls[0] = 0
                    /\ target = [lower |-> 0, upper |-> 0]
    /\ ~C11_Quiet => target = FreshTarget /\ target # [lower |-> 0, upper |-> 0]
                     /\ result.kind \in {"none", "result"}
C11_Scenario ==
  LET p == [lower |-> 0 - 1000, upper |-> 1000, inRange |-> TRUE]
  IN /\ ~(isPositionInRange(p.lower, p.upper, 0 - 950) /\ ~shouldRebalance(p, 0 - 950))
     /\ isPositionInRange(p.lower, p.upper, 0) /\ ~shouldRebalance(p, 0)
C11_NullIffInRangeAndNoRebalance ==
  /\ [](C11_Decided /\ C11_Scenario)
  /\ [][(Simple /\ target' # target) => (pc = "getPositions" \/ pc' = "getPoolInfo")]_vars
C11_Witness ==
  /\ Simple /\ position.exists /\ position.inRange /\ position.liq > 0
  /\ pc = "done" /\ result.success /\ committed["remove"] = 1

\* a method of the monitor has been called and has returned
Called(op) == monitorCall.op = op /\ monitorReturn.done

\* C12 (MonitorSpec): shouldRebalance is true exactly when the stored in-range
\* flag is false or the tick is closer than 5% of the width to the lower or
\* to the upper bound: true for every tick with the flag false, false with
\* the flag true and the tick at least the margin away from both bounds.
C12_ShouldRebalanceRule ==
  Called("shouldRebalance") =>
    LET l == monitorCall.lower
        u == monitorCall.upper
        t == monitorCall.t
    IN /\ monitorReturn.value <=>
             (~monitorCall.inRange \/ 20 * (t - l) < u - l \/ 20 * (u - t) < u - l)
       /\ ~monitorCall.inRange => monitorReturn.value
       /\ (monitorCall.inRange /\ 20 * (t - l) >= u - l /\ 20 * (u - t) >= u - l)
             => ~monitorReturn.value
C12_Witness ==
  /\ Called("shouldRebalance") /\ monitorCall.inRange /\ ~monitorReturn.value
  /\ 20 * (monitorCall.t - monitorCall.lower) = monitorCall.upper - monitorCall.lower

\* C13 (MonitorSpec): isPositionInRange(lower, upper, t) is true exactly when
\* lower <= t <= upper: true at both bounds, false one unit outside either.
C13_InRangeInclusive ==
  Called("isPositionInRange") =>
    LET l == monitorCall.lower
        u == monitorCall.upper
        t == monitorCall.t
    IN /\ monitorReturn.value <=> (l <= t /\ t <= u)
       /\ (t = l \/ t = u) => monitorReturn.value
       /\ (t = l - 1 \/ t = u + 1) => ~monitorReturn.value
C13_Witness ==
  /\ Called("isPositionInRange") /\ monitorCall.t = monitorCall.upper
  /\ monitorReturn.value

C15_CentredRange ==
  /\ Called("calculateOptimalRange") /\ monitorCall.w > 0 =>
       LET t == monitorCall.t
           s == monitorCall.s
           w == monitorCall.w
           lo == monitorReturn.lower
           up == monitorReturn.upper
       IN /\ lo % s = 0 /\ up % s = 0
          /\ 2 * lo <= 2 * t - w /\ 2 * t - w < 2 * (lo + s)     \* the floor
          /\ 2 * (up - s) < 2 * t + w /\ 2 * t + w <= 2 * up     \* the ceiling
          /\ up - lo >= w
          /\ lo < t /\ t < up
  /\ calculateOptimalRange(1000, 60, 600) = [lower |-> 660, upper |-> 1320]
C15_Witness ==
  /\ Called("calculateOptimalRange") /\ monitorCall.w % 2 = 1
  /\ monitorCall.t < 0 /\ monitorCall.s > 1
  /\ monitorReturn.upper - monitorReturn.lower > monitorCall.w

\* C16 as claimed (MonitorSpec): with a configured width W the realized width
\* differs from W by at most one tick spacing.
C16_WidthWithinOneSpacing ==
  (Called("calculateOptimalRange") /\ monitorCall.w > 0) =>
     Abs(monitorReturn.upper - monitorReturn.lower - monitorCall.w) <= monitorCall.s
\* C16 as amended: the realized width is never below W and exceeds it by less
\* than two tick spacings.
C16_WidthWithinTwoSpacings ==
  (Called("calculateOptimalRange") /\ monitorCall.w > 0) =>
     /\ monitorReturn.upper - monitorReturn.lower - monitorCall.w >= 0
     /\ monitorReturn.upper - monitorReturn.lower - monitorCall.w < 2 * monitorCall.s
C16_Witness ==
  /\ Called("calculateOptimalRange") /\ monitorCall.w > 0
  /\ monitorReturn.upper - monitorReturn.lower - monitorCall.w > monitorCall.s

C18_FailureKeepsScheduler ==
  /\ [][inFlight' = inFlight - 1 =>
          /\ isRunning' = isRunning
          /\ timers' = timers
          /\ intervalId' = intervalId
          /\ starts' = starts]_vars
  /\ []((botlog \in {"failure", "thrown"} /\ timers > 0) => ENABLED timerTick)
C18_Witness ==
  /\ botlog = "thrown" /\ isRunning /\ timers = 1 /\ intervalId = 1 /\ inFlight = 0

\* C19 (BotSpec): once stop() has returned no new check cycle starts until
\* start() is called again: a timer tick starts a cycle only while the bot is
\* running or a later start() is under way.
C19_NoCycleAfterStop ==
  [][inFlight' = inFlight + 1 => (isRunning \/ StartsInFlight > 0)]_vars

\* C20 (BotSpec): at most one periodic timer is scheduled at any time.
C20_AtMostOneTimer == timers <= 1

\* C21 (BotSpec): getStatus().running follows the lifecycle: it is true
\* whenever a start() call has just returned.
C21_RunningAfterStart == botlog = "started" => isRunning

\* C22: with dry-run enabled RebalanceService submits no transaction and
\* never reaches a step that leads to one, whether the wallet has no
\* position in the pool, the range is unchanged or a rebalance is needed; its
\* success result names the new range, the old range when there is a
\* position, and no transaction digest.
SubmittingPcs == {"fullRemoveLiquidity", "fullRemoveLiquidityExecute",
                  "fullAddLiquidity", "fullAddLiquidityExecute"}
C22_DryRunSubmitsNothing ==
  (Full /\ dryRun) =>
    /\ NoTransactions
    /\ pc \notin SubmittingPcs
    /\ (pc = "done" /\ result.kind = "result" /\ result.success) =>
          /\ result.digest = "none"
          /\ result.newPosition.set
          /\ result.oldPosition = IF position.exists
                                  THEN Range(position.lower, position.upper)
                                  ELSE NoRange
C22_Witness ==
  /\ Full /\ dryRun /\ pc = "done" /\ result.success
  /\ position.exists /\ ~rangeUnchanged(position, target, poolInfo.tickSpacing)

\* C23: with the dry-run flag set SimpleRebalanceService.checkAndRebalance
\* submits no remove-liquidity, merge or add-liquidity transaction.
C23_SimpleDryRunSubmitsNothing == (Simple /\ dryRun) => NoTransactions

\* C24: the rebalance subject of RebalanceService is the first position of
\* the wallet whose pool is the target pool; with no position in that pool a
\* new position is opened (the cycle goes to addLiquidity, in dry-run to its
\* result) and no remove-liquidity transaction is submitted.
InPool(i) == i \in 1 .. Len(wallet) /\ wallet[i] = "target"
C24_Discovered == Full /\ pc = "fullGetPositions" /\ pc' # pc
C24_FirstPositionInPool ==
  /\ [][(C24_Discovered /\ result'.error = NoError) =>
          IF \E i \in 1 .. Len(wallet) : InPool(i)
          THEN /\ InPool(subject')
               /\ \A i \in 1 .. subject' - 1 : ~InPool(i)
               /\ position'.exists
          ELSE /\ subject' = 0
               /\ ~position'.exists
               /\ pc' = (IF dryRun THEN "done" ELSE "fullAddLiquidity")]_vars
  /\ []((Full /\ subject = 0) => submitted["remove"] = 0)
C24_Witness ==
  /\ Full /\ wallet = <<"other", "target">> /\ subject = 2
  /\ pc = "done" /\ result.success /\ submitted["remove"] = 1

\* C25: when the tracked position is not among the wallet's positions, a
\* cycle of SimpleRebalanceService submits nothing and does nothing beyond
\* its two reads; it ends with null (with the error of a read that raised).
C25_NotFoundTakesNoAction ==
  (Simple /\ ~pos.exists) =>
    /\ NoTransactions
    /\ pc \in {"idle", "getPoolInfo", "getPositions", "done"}
    /\ pc = "done" => result \in {Null, Thrown(<<"raise", 0>>)}
C25_Witness ==
  /\ Simple /\ ~pos.exists /\ pc = "done" /\ result = Null /\ poolInfo.tick = 1

\* C26: a pool or position read of checkAndRebalance that raises ends the
\* cycle with that error rethrown to the caller: the read is not repeated and
\* the cycle has submitted no transaction.
OwnReadPcs == {"getPoolInfo", "getPositions", "monitorPosition"}
C26_ReadErrorRethrown ==
  /\ [][(pc \in OwnReadPcs /\ pc' = "done" /\ result'.kind # "null") =>
          /\ result' = Thrown(<<"raise", 0>>)
          /\ attempt' = attempt
          /\ \A k \in TxKinds : submitted'[k] = 0]_vars
  /\ [](result.kind = "thrown" => pc = "done" /\ NoTransactions)
C26_Witness ==
  /\ Simple /\ pc = "done" /\ result = Thrown(<<"raise", 0>>)
  /\ poolInfo.tick = 1 /\ pos.exists /\ pos.liq > 0

\* C27: rebalancePosition never throws: an exception reaches the caller only
\* from the reads checkAndRebalance makes itself; a failure of any step
\* inside rebalancePosition ends the cycle with a result that has success
\* false, an error and no transaction digest.
C27_RebalanceNeverThrows ==
  /\ [][(result'.kind = "thrown" /\ result.kind # "thrown") => pc \in OwnReadPcs]_vars
  /\ [][(pc \notin OwnReadPcs \cup {"idle", "done"} /\ pc' = "done") =>
          /\ result'.kind = "result"
          /\ ~result'.success =>
                result'.error[1] \in {"raise", "status", "consolidationFailed"}
                /\ result'.digest = "none"]_vars
C27_Witness ==
  /\ Full /\ pc = "done" /\ result = Failure(<<"status", 0>>)
  /\ lastTx = [kind |-> "add", outcome |-> "failure"] /\ flags.removeOk

\* C28: mergeCoins on a coin type with at most one coin object submits no
\* transaction and returns normally (unless its read raises), so a call
\* after a successful consolidation does nothing; a merge transaction is
\* built only for two or more coin objects.
C28_MergeIdempotent ==
  /\ [][(Simple /\ pc = "mergeCoins" /\ mergeCalls' # mergeCalls /\ coins[coin] <= 1) =>
          /\ submitted' = submitted
          /\ committed' = committed
          /\ lastError' = lastError =>
                /\ pc' = (IF coin = "A" THEN "mergeCoins" ELSE "addLiquidityPayload")
                /\ attempt' = attempt
                /\ result' = result]_vars
  /\ []((Simple /\ pc = "mergeCoinsExecute") => coins[coin] >= 2)
C28_Witness ==
  /\ Simple /\ pc = "addLiquidityPayload" /\ attempt = 0
  /\ mergeCalls[0] = 2 /\ submitted["merge"] = 0

\* C29 (MergeSpec): for n >= 2 coin objects mergeCoins builds exactly one
\* merge transaction; its primary coin has a balance no other coin exceeds
\* and its sources are the other n - 1 coins, each once, the primary not
\* among them.
C29_Sources == {mergeTx.sources[k] : k \in 1 .. Len(mergeTx.sources)}
C29_OneMergeIntoLargest ==
  (mergeTx.returned /\ Len(allCoins) >= 2) =>
    /\ mergeTx.count = 1
    /\ mergeTx.primary \in 1 .. Len(allCoins)
    /\ \A i \in 1 .. Len(allCoins) : allCoins[mergeTx.primary] >= allCoins[i]
    /\ Len(mergeTx.sources) = Len(allCoins) - 1
    /\ C29_Sources = (1 .. Len(allCoins)) \ {mergeTx.primary}
C29_Witness ==
  /\ mergeTx.returned /\ allCoins = <<1, 3, 2>>
  /\ mergeTx.primary = 2 /\ mergeTx.sources = <<3, 1>>

\* C30: after the merge transaction mergeCoins returns normally only from a
\* verification that shows at most one coin object; the second verification
\* runs only after the first showed more than one; the consolidation error
\* is thrown exactly by a second verification that still shows more than one.
VerifyPcs == {"mergeCoinsVerify", "mergeCoinsSecondVerify"}
C30_VerificationDecides ==
  [][Simple =>
       /\ (pc \in VerifyPcs /\ pc' \notin {pc, "mergeCoinsSecondVerify"}
              /\ lastError' = lastError) => coins[coin] <= 1
       /\ (pc' = "mergeCoinsSecondVerify" /\ pc # pc') =>
              pc = "mergeCoinsVerify" /\ coins[coin] > 1
       /\ (lastError'[1] = "consolidationFailed" /\ lastError' # lastError) =>
              pc = "mergeCoinsSecondVerify" /\ coins[coin] > 1
       /\ (pc = "mergeCoinsSecondVerify" /\ pc' # pc /\ coins[coin] > 1) =>
              lastError' \in {<<"consolidationFailed", attempt>>, <<"raise", attempt>>}]_vars
C30_Witness ==
  /\ Simple /\ pc = "done" /\ flags.consolidationFailed
  /\ result = Failure(<<"consolidationFailed", 1>>) /\ submitted["merge"] = 2

\* C31 (BotSpec): in the tracked-position bot an invalid setup is fatal
\* before the control loop starts: while the configured position is not
\* found the bot is never running, has no timer and performs no check cycle,
\* and a start() that validation rejects leaves running, the timers and the
\* check cycles as they were.
C31_InvalidSetupIsFatal ==
  /\ []((Simple /\ ~pos.exists) =>
          ~isRunning /\ timers = 0 /\ intervalId = 0 /\ CyclesInFlight = 0)
  /\ [][botlog' = "startRejected" =>
          /\ isRunning' = isRunning
          /\ timers' = timers
          /\ intervalId' = intervalId
          /\ inFlight' = inFlight
          /\ starts'["performCheck"] = starts["performCheck"]]_vars
C31_Witness ==
  /\ Simple /\ ~pos.exists /\ botlog = "startRejected"
  /\ StartsInFlight = 0 /\ ~isRunning /\ timers = 0

\* C32 (CycleSpec): after a cycle in which SimpleRebalanceService rebalanced
\* successfully, the next cycle that reads the same pool tick returns null
\* and submits no transaction.
C32_StableAfterSuccess ==
  (Simple /\ prev.on /\ prev.success /\ pc = "done" /\ result.kind # "thrown"
     /\ poolInfo.tick = prev.tick)
    => result = Null /\ NoTransactions

\* C33 (CycleSpec): no stuck position: when a cycle begins after one in which
\* the ledger executed the removal but no open-position transaction, then,
\* unless a later read or ledger call fails, a cycle follows in which the
\* ledger executes an open-position transaction, however the pool tick moves.
C33_CallFailed ==
  \/ result.kind = "thrown"
  \/ result.kind = "result" /\ ~result.success
  \/ lastError # NoError
  \/ lastTx.outcome \notin {"none", "success"}
C33_NoStuckPosition ==
  (Simple /\ pc = "getPoolInfo" /\ prev.removedOnly)
    ~> (committed["add"] > 0 \/ C33_CallFailed)

\* C34: every check cycle of SimpleRebalanceService ends: it submits at most
\* 2 remove-liquidity, 2 add-liquidity and 4 merge transactions; while it has
\* not ended a step of it can be taken (each call returns or raises) and
\* every step brings it nearer its end, which it reaches with null, a result
\* or a rethrown error.
MergePcs == {"mergeCoins", "mergeCoinsExecute", "mergeCoinsVerify", "mergeCoinsSecondVerify"}
C34_StepInAttempt ==
  CASE pc = "mergeCoins" -> 0
    [] pc = "mergeCoinsExecute" -> 1
    [] pc = "mergeCoinsVerify" -> 2
    [] pc = "mergeCoinsSecondVerify" -> 3
    [] OTHER -> 0
\* the place of the cycle on its way from the pool read to its end
C34_Progress ==
  CASE pc = "idle" -> 0
    [] pc = "getPoolInfo" -> 1
    [] pc = "getPositions" -> 2
    [] pc = "removeLiquidity" -> 3
    [] pc = "removeLiquidityExecute" -> 4 + attempt
    [] pc \in MergePcs -> 6 + 10 * attempt + (IF coin = "B" THEN 4 ELSE 0) + C34_StepInAttempt
    [] pc = "addLiquidityPayload" -> 6 + 10 * attempt + 8
    [] pc = "addLiquidityExecute" -> 6 + 10 * attempt + 9
    [] OTHER -> 6 + 10 * MaxAttempts
C34_CycleTerminates ==
  /\ [](Simple =>
          /\ submitted["remove"] <= 2
          /\ submitted["add"] <= 2
          /\ submitted["merge"] <= 4
          /\ pc = "done" => result.kind \in {"null", "result", "thrown"}
          /\ pc \notin {"idle", "done"} => ENABLED SimpleNext)
  /\ [][(Simple /\ pc \notin {"idle", "done"} /\ SimpleNext) =>
          C34_Progress' > C34_Progress]_vars
C34_Witness ==
  /\ Simple /\ pc = "done" /\ result.kind = "result"
  /\ submitted["remove"] = 2 /\ submitted["add"] = 2 /\ submitted["merge"] = 4

\* C35: in RebalanceService a remove-liquidity or open-position transaction
\* whose first attempt failed has been submitted a second time when the
\* failure is the cycle's result.
C35_FullRetriesOnce ==
  (Full /\ pc = "done" /\ ~result.success /\ lastTx.kind \in {"remove", "add"}
     /\ lastTx.outcome # "success")
    => submitted[lastTx.kind] = 2

C37_ConfiguredTicksUsed ==
  (Full /\ ~position.exists /\ pc \in {"fullAddLiquidity", "fullAddLiquidityExecute"})
    => target = IF cfgTicks.lower.set /\ cfgTicks.upper.set
                THEN [lower |-> cfgTicks.lower.value, upper |-> cfgTicks.upper.value]
                ELSE FreshTarget

\* C38: the newPosition range a dry run of RebalanceService returns is the
\* range a real run from the same pool state, positions and configuration
\* submits: the range of calculateOptimalRange for an existing position, the
\* range of createNewPosition when the wallet has no position in the pool.
C38_RealRange ==
  IF position.exists \/ ~(Truthy(cfgTicks.lower) /\ Truthy(cfgTicks.upper))
  THEN Range(FreshTarget.lower, FreshTarget.upper)
  ELSE Range(cfgTicks.lower.value, cfgTicks.upper.value)
C38_DryRunReportsRealRange ==
  (Full /\ dryRun /\ pc = "done" /\ result.success) => result.newPosition = C38_RealRange

\* C39 (AmountSpec): with no configured amount the amount addLiquidity takes
\* for a token never exceeds the wallet's balance of it, and a zero balance
\* is rejected.
C39_AmountWithinBalance ==
  addAmounts.done =>
    /\ ~addCall.cfgA.set =>
          /\ addAmounts.a <= addCall.balA
          /\ addCall.balA = 0 => addAmounts.rejected
    /\ ~addCall.cfgB.set =>
          /\ addAmounts.b <= addCall.balB
          /\ addCall.balB = 0 => addAmounts.rejected

\* C40 (CycleSpec): the range of the open-position transaction holds the
\* pool tick of the moment the transaction is submitted:
\* lower <= tick < upper.
C40_TargetHoldsTickAtSubmission ==
  [][(Simple /\ submitted'["add"] = submitted["add"] + 1) =>
        target.lower <= tick /\ tick < target.upper]_vars

====
